---- MODULE Spec2Model ----
(***************************************************************************)
(* A model of the claude-go-adk adapter: the request mapper (buildParams   *)
(* and its helpers), the invocation layer (GenerateContent and             *)
(* generateStream) and the response mapper (messageToLLMResponse and its   *)
(* helpers).                                                               *)
(*                                                                         *)
(* Data representation.  Go strings are TLA+ strings, except schema type   *)
(* names, which are sequences of one-character strings so that             *)
(* strings.ToLower is computed character by character.  A Go pointer or a  *)
(* nil-able map is an option: <<>> is nil and <<v>> is a pointer to v.  A  *)
(* map[string]any is a sequence of <<key, value>> pairs in key order (the  *)
(* order encoding/json writes them in).  The provider's unions             *)
(* (ContentBlockParamUnion, ContentBlockUnion, MessageStreamEventUnion)    *)
(* are flat records whose unused fields hold their zero value, as in the   *)
(* SDK.                                                                    *)
(***************************************************************************)
EXTENDS Integers, Sequences, FiniteSets, TLC

VARIABLES
    fn,        \* conversion run: the function under application
    arg,       \* conversion run: its input
    res,       \* conversion run: its output (<<>> before the call)
    done,      \* conversion run: whether the function has been applied
    pc,        \* session: position of the iterator body
    stream,    \* session: the stream flag of GenerateContent
    req,       \* session: the LLMRequest
    params,    \* session: option, the MessageNewParams built by buildParams
    wire,      \* session: the provider's protocol position
    msg,       \* session: the accumulated anthropic.Message
    yielded,   \* session: the items handed to yield, in order
    calls,     \* session: provider calls made (Messages.New / NewStreaming)
    events,    \* session: the events read from the stream, in order
    closed,    \* session: number of times stream.Close ran
    iters,     \* session: iterations of the returned sequence started
    stopped    \* session: the consumer's yield returned false

convVars == <<fn, arg, res, done>>
sessVars == <<pc, stream, req, params, wire, msg, yielded, calls, events, closed, iters, stopped>>
vars == <<fn, arg, res, done, pc, stream, req, params, wire, msg, yielded, calls,
          events, closed, iters, stopped>>

(***************************************************************************)
(* Bounds of the model.                                                    *)
(***************************************************************************)
MaxParts == 2        \* parts in one content
MaxContents == 3     \* contents in one conversation
MaxDepth == 2        \* nesting depth of a schema
MaxBlocks == 3       \* content blocks in one provider message
MaxEvents == 10      \* events read in one streaming session

(***************************************************************************)
(* Sequence and string helpers.                                            *)
(***************************************************************************)
RECURSIVE SeqsUpTo(_, _)
SeqsUpTo(S, n) ==
    IF n = 0 THEN {<<>>}
    ELSE LET shorter == SeqsUpTo(S, n - 1)
         IN  shorter \cup {Append(s, x) : s \in {t \in shorter : Len(t) = n - 1}, x \in S}

\* strings.Join(parts, sep)
RECURSIVE Join(_, _)
Join(parts, sep) ==
    IF parts = <<>> THEN ""
    ELSE IF Len(parts) = 1 THEN parts[1]
    ELSE parts[1] \o sep \o Join(Tail(parts), sep)

\* The concatenation of a sequence of strings.
Concat(parts) == Join(parts, "")

Upper == <<"A","B","C","D","E","F","G","H","I","J","K","L","M",
           "N","O","P","Q","R","S","T","U","V","W","X","Y","Z">>
Lower == <<"a","b","c","d","e","f","g","h","i","j","k","l","m",
           "n","o","p","q","r","s","t","u","v","w","x","y","z">>

\* unicode.ToLower on one ASCII character.
ToLowerChar(c) ==
    IF \E i \in 1..Len(Upper) : Upper[i] = c
    THEN Lower[CHOOSE i \in 1..Len(Upper) : Upper[i] = c]
    ELSE c

\* strings.ToLower on a string given as its characters.
ToLower(s) == [i \in 1..Len(s) |-> ToLowerChar(s[i])]

(***************************************************************************)
(* encoding/json on map[string]any with string values.                     *)
(***************************************************************************)
Quote(s) == "\"" \o s \o "\""

JSONField(kv) == Quote(kv[1]) \o ":" \o Quote(kv[2])

\* json.Marshal of a map: null for a nil map, else the fields in key order.
JSONMarshal(m) ==
    IF m = <<>> THEN "null"
    ELSE "{" \o Join([i \in 1..Len(m[1]) |-> JSONField(m[1][i])], ",") \o "}"

\* The maps of the model: nil, empty, one field, two fields.
JSONMaps ==
    { <<>>, << <<>> >>,
      << << <<"name", "all">> >> >>,
      << << <<"result", "Ocean Beach">> >> >>,
      << << <<"name", "all">>, <<"result", "Ocean Beach">> >> >> }

\* json.Unmarshal(raw, &args) into a nil map, its error dropped: the map whose
\* encoding raw is; args stays nil on null and on text that is no JSON object.
JSONUnmarshal(raw) ==
    IF \E m \in JSONMaps : m # <<>> /\ JSONMarshal(m) = raw
    THEN CHOOSE m \in JSONMaps : m # <<>> /\ JSONMarshal(m) = raw
    ELSE <<>>

(***************************************************************************)
(* genai values.                                                           *)
(***************************************************************************)
\* genai.Part: Text, *FunctionCall, *FunctionResponse.
Part(text, fc, fr) == [Text |-> text, FunctionCall |-> fc, FunctionResponse |-> fr]

TextPart(text) == Part(text, <<>>, <<>>)

\* genai.FunctionCall and genai.FunctionResponse share ID and Name; Data is
\* Args of the one and Response of the other.
Func(id, name, data) == [ID |-> id, Name |-> name, Data |-> data]

\* *genai.Content
Content(role, parts) == [Role |-> role, Parts |-> parts]

(***************************************************************************)
(* anthropic request values.                                               *)
(***************************************************************************)
\* The zero ContentBlockParamUnion.
ZeroBlockParam ==
    [Type |-> "", Text |-> "", ID |-> "", Name |-> "", Input |-> <<>>,
     ToolUseID |-> "", Content |-> "", IsError |-> FALSE]

NewTextBlock(text) == [ZeroBlockParam EXCEPT !.Type = "text", !.Text = text]

NewToolUseBlock(id, input, name) ==
    [ZeroBlockParam EXCEPT !.Type = "tool_use", !.ID = id, !.Input = input, !.Name = name]

NewToolResultBlock(toolUseID, content, isError) ==
    [ZeroBlockParam EXCEPT !.Type = "tool_result", !.ToolUseID = toolUseID,
                           !.Content = content, !.IsError = isError]

NewAssistantMessage(blocks) == [Role |-> "assistant", Content |-> blocks]

NewUserMessage(blocks) == [Role |-> "user", Content |-> blocks]

(***************************************************************************)
(* The request mapper.                                                     *)
(***************************************************************************)
\* partBlocks with the FunctionResponse case tried before the FunctionCall case.
partBlocksResponseFirst(p) ==
    IF p.Text # "" THEN <<NewTextBlock(p.Text)>>
    ELSE IF p.FunctionResponse # <<>> THEN
        <<NewToolResultBlock(p.FunctionResponse[1].ID,
                             JSONMarshal(p.FunctionResponse[1].Data), FALSE)>>
    ELSE IF p.FunctionCall # <<>> THEN
        <<NewToolUseBlock(p.FunctionCall[1].ID, p.FunctionCall[1].Data,
                          p.FunctionCall[1].Name)>>
    ELSE <<>>

\* One turn of the loop of partsToBlocks: the blocks the switch appends for p.
partBlocks(p) ==
    IF p.Text # "" THEN <<NewTextBlock(p.Text)>>
    ELSE IF p.FunctionCall # <<>> THEN
        <<NewToolUseBlock(p.FunctionCall[1].ID, p.FunctionCall[1].Data,
                          p.FunctionCall[1].Name)>>
    ELSE IF p.FunctionResponse # <<>> THEN
        <<NewToolResultBlock(p.FunctionResponse[1].ID,
                             JSONMarshal(p.FunctionResponse[1].Data), FALSE)>>
    ELSE <<>>

RECURSIVE partsToBlocks(_)
partsToBlocks(parts) ==
    IF parts = <<>> THEN <<>>
    ELSE partBlocks(Head(parts)) \o partsToBlocks(Tail(parts))

\* contentMessages with only the role "model" taken for the assistant.
contentMessagesModelOnly(c) ==
    IF c = <<>> THEN <<>>
    ELSE LET blocks == partsToBlocks(c[1].Parts)
         IN  IF Len(blocks) = 0 THEN <<>>
             ELSE IF c[1].Role = "model"
                  THEN <<NewAssistantMessage(blocks)>>
                  ELSE <<NewUserMessage(blocks)>>

\* One turn of the loop of contentsToMessages: the messages appended for c.
contentMessages(c) ==
    IF c = <<>> THEN <<>>
    ELSE LET blocks == partsToBlocks(c[1].Parts)
         IN  IF Len(blocks) = 0 THEN <<>>
             ELSE IF c[1].Role = "model" \/ c[1].Role = "assistant"
                  THEN <<NewAssistantMessage(blocks)>>
                  ELSE <<NewUserMessage(blocks)>>

RECURSIVE contentsToMessages(_)
contentsToMessages(contents) ==
    IF contents = <<>> THEN <<>>
    ELSE contentMessages(Head(contents)) \o contentsToMessages(Tail(contents))

\* The texts systemFromContent collects: the non-empty ones, in part order.
RECURSIVE nonEmptyTexts(_)
nonEmptyTexts(parts) ==
    IF parts = <<>> THEN <<>>
    ELSE (IF Head(parts).Text # "" THEN <<Head(parts).Text>> ELSE <<>>)
         \o nonEmptyTexts(Tail(parts))

\* systemFromContent joining every text, the empty ones included.
systemFromContentKeepsEmpty(c) ==
    LET parts == [i \in 1..Len(c.Parts) |-> c.Parts[i].Text]
    IN  IF Len(nonEmptyTexts(c.Parts)) = 0 THEN <<>>
        ELSE << [Type |-> "text", Text |-> Join(parts, "\n")] >>

systemFromContent(c) ==
    LET parts == nonEmptyTexts(c.Parts)
    IN  IF Len(parts) = 0 THEN <<>>
        ELSE << [Type |-> "text", Text |-> Join(parts, "\n")] >>

\* genai.Schema: Type is given as its characters, Properties as <<name, *Schema>>
\* pairs with distinct names, Items as a *Schema.
Schema(type, desc, props, required, enum, items) ==
    [Type |-> type, Description |-> desc, Properties |-> props,
     Required |-> required, Enum |-> enum, Items |-> items]

ObjectChars == <<"o", "b", "j", "e", "c", "t">>

PropNames(props) == {props[i][1] : i \in 1..Len(props)}

PropValue(props, name) == props[CHOOSE i \in 1..Len(props) : props[i][1] = name][2]

\* schemaType without the lower-casing.
schemaTypeVerbatim(x) == x.Type

\* The "type" entry schemaToMap writes for a non-nil schema x.
schemaType(x) == ToLower(x.Type)

\* The map schemaToMap returns, as a function on the keys it has set.
RECURSIVE schemaToMap(_)
schemaToMap(s) ==
    IF s = <<>> THEN [k \in {"type"} |-> ObjectChars]
    ELSE LET x == s[1]
             keys == {"type"}
                     \cup (IF x.Description # "" THEN {"description"} ELSE {})
                     \cup (IF Len(x.Properties) > 0 THEN {"properties"} ELSE {})
                     \cup (IF Len(x.Required) > 0 THEN {"required"} ELSE {})
                     \cup (IF Len(x.Enum) > 0 THEN {"enum"} ELSE {})
                     \cup (IF x.Items # <<>> THEN {"items"} ELSE {})
         IN  [k \in keys |->
                CASE k = "type" -> schemaType(x)
                  [] k = "description" -> x.Description
                  [] k = "properties" ->
                        [n \in PropNames(x.Properties) |->
                            schemaToMap(PropValue(x.Properties, n))]
                  [] k = "required" -> x.Required
                  [] k = "enum" -> x.Enum
                  [] k = "items" -> schemaToMap(x.Items)]

\* genai.FunctionDeclaration.  ParametersJsonSchema, an any, is an option of
\* [IsObject, Properties, Required]: whether its JSON encoding is an object, that
\* object's "properties" member (an option) and its "required" member (an option
\* of a list of [IsString, Value] elements).
FunctionDeclaration(name, desc, parameters, jsonSchema) ==
    [Name |-> name, Description |-> desc, Parameters |-> parameters,
     ParametersJsonSchema |-> jsonSchema]

\* The strings among the elements of a decoded []any.
RECURSIVE stringsOf(_)
stringsOf(raw) ==
    IF raw = <<>> THEN <<>>
    ELSE (IF Head(raw).IsString THEN <<Head(raw).Value>> ELSE <<>>) \o stringsOf(Tail(raw))

\* The ToolInputSchemaParam extractTools builds for one declaration.
toolInputSchema(fd) ==
    LET empty == [Type |-> "object", Properties |-> <<>>, Required |-> <<>>]
    IN  IF fd.Parameters # <<>> THEN
            LET schema == schemaToMap(fd.Parameters)
            IN  [empty EXCEPT
                    !.Properties = IF "properties" \in DOMAIN schema
                                   THEN <<schema["properties"]>> ELSE <<>>,
                    !.Required = IF "required" \in DOMAIN schema
                                 THEN schema["required"] ELSE <<>>]
        ELSE IF fd.ParametersJsonSchema # <<>> THEN
            LET js == fd.ParametersJsonSchema[1]
            IN  IF ~js.IsObject THEN empty
                ELSE [empty EXCEPT
                        !.Properties = js.Properties,
                        !.Required = IF js.Required # <<>>
                                     THEN stringsOf(js.Required[1]) ELSE <<>>]
        ELSE empty

\* One turn of the inner loop of extractTools.
toolParam(fd) ==
    [Name |-> fd.Name, Description |-> fd.Description, InputSchema |-> toolInputSchema(fd)]

RECURSIVE declarationsToTools(_)
declarationsToTools(fds) ==
    IF fds = <<>> THEN <<>>
    ELSE <<toolParam(Head(fds))>> \o declarationsToTools(Tail(fds))

RECURSIVE extractToolsLastGroupFirst(_)
\* extractTools putting the tools of later groups before those of earlier ones.
extractToolsLastGroupFirst(tools) ==
    IF tools = <<>> THEN <<>>
    ELSE extractToolsLastGroupFirst(Tail(tools)) \o declarationsToTools(Head(tools))

\* tools is a list of genai.Tool, each given as its FunctionDeclarations.
RECURSIVE extractTools(_)
extractTools(tools) ==
    IF tools = <<>> THEN <<>>
    ELSE declarationsToTools(Head(tools)) \o extractTools(Tail(tools))

defaultMaxTokens == 8192

\* model.LLMRequest with its *genai.GenerateContentConfig.
Config(sys, maxOut, temperature, topP, stops, tools) ==
    [SystemInstruction |-> sys, MaxOutputTokens |-> maxOut, Temperature |-> temperature,
     TopP |-> topP, StopSequences |-> stops, Tools |-> tools]

LLMRequest(contents, config) == [Contents |-> contents, Config |-> config]

\* buildParams reads c.Role of every content for its log line before it converts
\* any: a nil content is a nil dereference.
buildParamsPanics(r) == \E i \in 1..Len(r.Contents) : r.Contents[i] = <<>>

\* configMaxTokens taking a MaxOutputTokens of zero as set.
configMaxTokensAcceptsZero(c) ==
    IF c.MaxOutputTokens >= 0 THEN c.MaxOutputTokens ELSE defaultMaxTokens

\* The MaxTokens buildParams sets for a non-nil config c.
configMaxTokens(c) ==
    IF c.MaxOutputTokens > 0 THEN c.MaxOutputTokens ELSE defaultMaxTokens

\* The System buildParams sets for a non-nil config c (<<>>: left unset).
configSystem(c) ==
    IF c.SystemInstruction # <<>>
    THEN LET sys == systemFromContent(c.SystemInstruction[1])
         IN  IF Len(sys) > 0 THEN sys ELSE <<>>
    ELSE <<>>

buildParams(name, r) ==
    LET base == [Model |-> name, MaxTokens |-> defaultMaxTokens,
                 Messages |-> contentsToMessages(r.Contents),
                 System |-> <<>>, Temperature |-> <<>>, TopP |-> <<>>,
                 StopSequences |-> <<>>, Tools |-> <<>>, ToolChoice |-> <<>>]
    IN  IF r.Config = <<>> THEN base
        ELSE LET c == r.Config[1]
                 tools == extractTools(c.Tools)
             IN  [base EXCEPT
                    !.System = configSystem(c),
                    !.MaxTokens = configMaxTokens(c),
                    !.Temperature = c.Temperature,
                    !.TopP = c.TopP,
                    !.StopSequences = IF Len(c.StopSequences) > 0 THEN c.StopSequences
                                      ELSE <<>>,
                    !.Tools = IF Len(tools) > 0 THEN tools ELSE <<>>,
                    !.ToolChoice = IF Len(tools) > 0
                                   THEN << [Type |-> "auto", DisableParallelToolUse |-> TRUE] >>
                                   ELSE <<>>]

(***************************************************************************)
(* The response mapper.                                                    *)
(***************************************************************************)
\* anthropic.ContentBlockUnion; Input is the raw JSON of a tool_use input.
ContentBlock(type, text, id, name, input) ==
    [Type |-> type, Text |-> text, ID |-> id, Name |-> name, Input |-> input]

\* anthropic.Message
Message(content, stopReason, inputTokens, outputTokens) ==
    [Content |-> content, StopReason |-> stopReason,
     Usage |-> [InputTokens |-> inputTokens, OutputTokens |-> outputTokens]]

\* Widths of Go's int32 and int64, scaled down.
Int32Bits == 5
Int64Bits == 7

\* Two's-complement wrap-around of x to a signed integer of the given width.
Wrap(x, bits) ==
    LET m == 2 ^ bits
        r == x % m
    IN  IF r >= m \div 2 THEN r - m ELSE r

\* usageToMetadata with the input tokens counted twice in the total.
usageToMetadataInputTwice(u) ==
    [PromptTokenCount |-> Wrap(u.InputTokens, Int32Bits),
     CandidatesTokenCount |-> Wrap(u.OutputTokens, Int32Bits),
     TotalTokenCount |-> Wrap(Wrap(u.InputTokens + u.InputTokens, Int64Bits), Int32Bits)]

usageToMetadata(u) ==
    [PromptTokenCount |-> Wrap(u.InputTokens, Int32Bits),
     CandidatesTokenCount |-> Wrap(u.OutputTokens, Int32Bits),
     TotalTokenCount |-> Wrap(Wrap(u.InputTokens + u.OutputTokens, Int64Bits), Int32Bits)]

\* stopToFinish without its tool_use case.
stopToFinishNoToolUse(reason) ==
    CASE reason = "end_turn" -> "STOP"
      [] reason = "max_tokens" -> "MAX_TOKENS"
      [] OTHER -> "OTHER"

stopToFinish(reason) ==
    CASE reason = "end_turn" -> "STOP"
      [] reason = "max_tokens" -> "MAX_TOKENS"
      [] reason = "tool_use" -> "STOP"
      [] OTHER -> "OTHER"

\* blockParts with the ID and the name of a tool_use block exchanged.
blockPartsSwapped(block) ==
    CASE block.Type = "text" -> <<TextPart(block.Text)>>
      [] block.Type = "tool_use" ->
            <<Part("", <<Func(block.Name, block.ID, JSONUnmarshal(block.Input))>>, <<>>)>>
      [] OTHER -> <<>>

\* One turn of the loop of messageToLLMResponse: the parts appended for block.
blockParts(block) ==
    CASE block.Type = "text" -> <<TextPart(block.Text)>>
      [] block.Type = "tool_use" ->
            <<Part("", <<Func(block.ID, block.Name, JSONUnmarshal(block.Input))>>, <<>>)>>
      [] OTHER -> <<>>

RECURSIVE blocksToParts(_)
blocksToParts(blocks) ==
    IF blocks = <<>> THEN <<>>
    ELSE blockParts(Head(blocks)) \o blocksToParts(Tail(blocks))

\* model.LLMResponse
LLMResponse(content, finish, usage, partial, turnComplete) ==
    [Content |-> content, FinishReason |-> finish, UsageMetadata |-> usage,
     Partial |-> partial, TurnComplete |-> turnComplete]

messageToLLMResponse(m) ==
    LLMResponse(Content("model", blocksToParts(m.Content)), stopToFinish(m.StopReason),
                <<usageToMetadata(m.Usage)>>, FALSE, FALSE)

(***************************************************************************)
(* Inputs of the conversion runs.                                          *)
(***************************************************************************)
ArgsMap == << << <<"name", "all">> >> >>

ResponseMap == << << <<"result", "Ocean Beach">> >> >>

\* Parts with every combination of Text, FunctionCall and FunctionResponse set.
\* (A nil *Part is left out: partsToBlocks dereferences every part.)
PartSet ==
    {Part(t, fc, fr) :
        t \in {"", "Show spots"},
        fc \in {<<>>, <<Func("toolu_01A", "get_spots", ArgsMap)>>},
        fr \in {<<>>, <<Func("toolu_01B", "get_spots", <<>>)>>,
                <<Func("toolu_01C", "get_tides", ResponseMap)>>}}

PartLists == SeqsUpTo(PartSet, MaxParts)

CallPart == Part("", <<Func("toolu_01A", "get_spots", ArgsMap)>>, <<>>)

Roles == {"user", "model", "assistant", ""}

\* Contents: nil, one without parts, and for each role one whose only part is
\* empty, one with a text and one with an empty part before a function call.
ContentSet ==
    {<<>>, <<Content("user", <<>>)>>}
    \cup {<<Content(r, ps)>> :
            r \in Roles,
            ps \in {<<TextPart("")>>, <<TextPart("Show spots")>>, <<TextPart(""), CallPart>>}}

ContentLists == SeqsUpTo(ContentSet, MaxContents)

SystemContents ==
    {Content("", ps) :
        ps \in SeqsUpTo({TextPart(""), TextPart("You are a surf analyst."),
                         TextPart("Rate conditions.")}, MaxParts + 1)}

TypeNames ==
    {<<>>, <<"O","B","J","E","C","T">>, <<"S","t","r","i","n","g">>, <<"a","r","r","a","y">>}

SchemaLeaves ==
    {Schema(t, d, <<>>, r, e, <<>>) :
        t \in TypeNames, d \in {"", "Spot name or 'all'"},
        r \in {<<>>, <<"name">>}, e \in {<<>>, <<"a", "b">>}}

\* The schemas that nest c (nil or a schema) as a property, as the items, or both.
SchemaWraps(c) ==
    { Schema(<<"O","B","J","E","C","T">>, "", << <<"name", c>> >>, <<>>, <<>>, <<>>),
      Schema(<<"O","B","J","E","C","T">>, "", << <<"name", c>>, <<"tags", <<>> >> >>,
             <<"name">>, <<>>, <<>>),
      Schema(<<"A","R","R","A","Y">>, "", <<>>, <<>>, <<>>, c),
      Schema(<<"O","b","j","e","c","t">>, "", << <<"tags", c>> >>, <<"tags">>, <<>>, c) }

RECURSIVE SchemasUpTo(_)
SchemasUpTo(depth) ==
    IF depth = 0 THEN SchemaLeaves
    ELSE LET inner == SchemasUpTo(depth - 1)
         IN  inner \cup UNION {SchemaWraps(c) : c \in {<<>>} \cup {<<x>> : x \in inner}}

SchemaArgs == {<<>>} \cup {<<x>> : x \in SchemasUpTo(MaxDepth)}

NameSchema ==
    Schema(<<"O","B","J","E","C","T">>, "",
           << <<"name", <<Schema(<<"S","T","R","I","N","G">>, "Spot name or 'all'",
                                 <<>>, <<>>, <<>>, <<>>)>> >> >>,
           <<"name">>, <<>>, <<>>)

JsonSchemaObject ==
    [IsObject |-> TRUE, Properties |-> <<"{\"q\":{\"type\":\"string\"}}">>,
     Required |-> << << [IsString |-> TRUE, Value |-> "q"],
                        [IsString |-> FALSE, Value |-> "1"] >> >>]

JsonSchemaScalar == [IsObject |-> FALSE, Properties |-> <<>>, Required |-> <<>>]

DeclParameters ==
    FunctionDeclaration("get_spots_of_interest", "Returns spots of interest.",
                        <<NameSchema>>, <<>>)

DeclJsonSchema == FunctionDeclaration("get_tides", "", <<>>, <<JsonSchemaObject>>)

DeclBare == FunctionDeclaration("ping", "No parameters.", <<>>, <<>>)

DeclJsonScalar == FunctionDeclaration("echo", "", <<>>, <<JsonSchemaScalar>>)

ToolLists ==
    { <<>>, << <<>> >>, << <<DeclParameters>> >>,
      << <<DeclParameters, DeclJsonSchema>>, <<>>, <<DeclBare, DeclJsonScalar>> >> }

MaxInt32 == 2147483647

Configs ==
    {<<>>}
    \cup {<<Config(sys, maxOut, temperature, topP, stops, tools)>> :
            sys \in {<<>>} \cup {<<c>> : c \in SystemContents},
            maxOut \in {0 - 1, 0, 1, 100, defaultMaxTokens, MaxInt32},
            temperature \in {<<>>, <<7>>},
            topP \in {<<>>, <<9>>},
            stops \in {<<>>, <<"END">>},
            tools \in ToolLists}

UserContent == <<Content("user", <<TextPart("Show me surf spots")>>)>>

Requests ==
    {LLMRequest(<<UserContent>>, c) : c \in Configs}
    \cup {LLMRequest(<<UserContent, <<>> >>, <<>>)}

ModelName == "claude-sonnet-4-5-20250929"

ResponseBlocks ==
    { ContentBlock("text", "Paris", "", "", ""),
      ContentBlock("text", "", "", "", ""),
      ContentBlock("tool_use", "", "toolu_01A", "get_spots_of_interest", "{\"name\":\"all\"}"),
      ContentBlock("tool_use", "", "toolu_01B", "ping", "{}"),
      ContentBlock("tool_use", "", "toolu_01C", "get_tides", "{\"name\":"),
      ContentBlock("thinking", "", "", "", "") }

StopReasons ==
    {"", "end_turn", "max_tokens", "stop_sequence", "tool_use", "pause_turn", "refusal"}

ProviderMessages ==
    {Message(blocks, reason, 14, 3) :
        blocks \in SeqsUpTo(ResponseBlocks, MaxBlocks),
        reason \in {"end_turn", "max_tokens", "tool_use", "refusal"}}

(***************************************************************************)
(* Conversion runs: one mapper function applied to one input.              *)
(***************************************************************************)
SessionIdle ==
    /\ pc = "idle" /\ stream = FALSE /\ req = <<>> /\ params = <<>> /\ wire = "idle"
    /\ msg = <<>> /\ yielded = <<>> /\ calls = 0 /\ events = <<>> /\ closed = 0
    /\ iters = 0 /\ stopped = FALSE

\* anthropic.Usage with every pair of int64 token counts.
Usages ==
    [InputTokens : (0 - 2 ^ (Int64Bits - 1))..(2 ^ (Int64Bits - 1) - 1),
     OutputTokens : (0 - 2 ^ (Int64Bits - 1))..(2 ^ (Int64Bits - 1) - 1)]

InitConvert ==
    /\ SessionIdle
    /\ res = <<>>
    /\ done = "no"
    /\ \/ fn = "partsToBlocks" /\ arg \in PartLists
       \/ fn = "contentsToMessages" /\ arg \in ContentLists
       \/ fn = "systemFromContent" /\ arg \in SystemContents
       \/ fn = "schemaToMap" /\ arg \in SchemaArgs
       \/ fn = "buildParams" /\ arg \in Requests
       \/ fn = "stopToFinish" /\ arg \in StopReasons
       \/ fn = "messageToLLMResponse" /\ arg \in ProviderMessages
       \/ fn = "usageToMetadata" /\ arg \in Usages

Returns(f, value) ==
    /\ fn = f
    /\ done = "no"
    /\ res' = <<value>>
    /\ done' = "yes"
    /\ UNCHANGED <<fn, arg>>
    /\ UNCHANGED sessVars

CallPartsToBlocks == Returns("partsToBlocks", partsToBlocks(arg))

CallContentsToMessages == Returns("contentsToMessages", contentsToMessages(arg))

CallSystemFromContent == Returns("systemFromContent", systemFromContent(arg))

CallSchemaToMap == Returns("schemaToMap", schemaToMap(arg))

CallBuildParams ==
    /\ fn = "buildParams"
    /\ ~buildParamsPanics(arg)
    /\ Returns("buildParams", buildParams(ModelName, arg))

CallBuildParamsPanic ==
    /\ fn = "buildParams"
    /\ done = "no"
    /\ buildParamsPanics(arg)
    /\ done' = "panic"
    /\ UNCHANGED <<fn, arg, res>>
    /\ UNCHANGED sessVars

CallStopToFinish == Returns("stopToFinish", stopToFinish(arg))

CallMessageToLLMResponse == Returns("messageToLLMResponse", messageToLLMResponse(arg))

CallUsageToMetadata == Returns("usageToMetadata", usageToMetadata(arg))

NextConvert ==
    \/ CallPartsToBlocks
    \/ CallContentsToMessages
    \/ CallSystemFromContent
    \/ CallSchemaToMap
    \/ CallBuildParams
    \/ CallBuildParamsPanic
    \/ CallStopToFinish
    \/ CallMessageToLLMResponse
    \/ CallUsageToMetadata

SpecConvert == InitConvert /\ [][NextConvert]_vars

\* The result of a finished conversion run of f.
Returned(f) == fn = f /\ done = "yes"

(***************************************************************************)
(* The provider's event stream.                                            *)
(***************************************************************************)
ZeroMessage == Message(<<>>, "", 0, 0)

ZeroBlock == ContentBlock("", "", "", "", "")

\* anthropic.MessageStreamEventUnion.  Malformed: the raw JSON of the content
\* block of a content_block_start cannot be decoded.
Event(type, message, block, malformed, deltaType, text, partialJSON, stopReason, outputTokens) ==
    [Type |-> type, Message |-> message, Block |-> block, Malformed |-> malformed,
     DeltaType |-> deltaType, Text |-> text, PartialJSON |-> partialJSON,
     StopReason |-> stopReason, OutputTokens |-> outputTokens]

MessageStartEvent == Event("message_start", Message(<<>>, "", 14, 1), ZeroBlock, FALSE, "", "", "", "", 0)

ContentBlockStartEvent(block, malformed) ==
    Event("content_block_start", ZeroMessage, block, malformed, "", "", "", "", 0)

TextDeltaEvent(text) ==
    Event("content_block_delta", ZeroMessage, ZeroBlock, FALSE, "text_delta", text, "", "", 0)

InputJSONDeltaEvent(partialJSON) ==
    Event("content_block_delta", ZeroMessage, ZeroBlock, FALSE, "input_json_delta", "",
          partialJSON, "", 0)

ContentBlockStopEvent == Event("content_block_stop", ZeroMessage, ZeroBlock, FALSE, "", "", "", "", 0)

MessageDeltaEvent(stopReason, outputTokens) ==
    Event("message_delta", ZeroMessage, ZeroBlock, FALSE, "", "", "", stopReason, outputTokens)

MessageStopEvent == Event("message_stop", ZeroMessage, ZeroBlock, FALSE, "", "", "", "", 0)

TextDeltas == {"Hello", " world"}

InputJSONDeltas == {"{\"name\":", "\"all\"}"}

\* The events the provider may send next, each with the protocol position it
\* leaves the stream in.  The order is the Messages streaming protocol's:
\* message_start, then content blocks (a start, that block's deltas, a stop),
\* then message_delta and message_stop.
ProviderEvents(w) ==
    CASE w = "init" -> {<<MessageStartEvent, "open">>}
      [] w = "open" ->
            {<<ContentBlockStartEvent(ContentBlock("text", "", "", "", ""), m), "text">> :
                m \in BOOLEAN}
            \cup {<<ContentBlockStartEvent(
                        ContentBlock("tool_use", "", "toolu_01A", "get_spots", "{}"), FALSE),
                    "tool_use">>}
            \cup {<<MessageDeltaEvent(r, 3), "closing">> : r \in {"end_turn", "tool_use"}}
      [] w = "text" ->
            {<<TextDeltaEvent(t), "text">> : t \in TextDeltas}
            \cup {<<ContentBlockStopEvent, "open">>}
      [] w = "tool_use" ->
            {<<InputJSONDeltaEvent(j), "tool_use">> : j \in InputJSONDeltas}
            \cup {<<ContentBlockStopEvent, "open">>}
      [] w = "closing" -> {<<MessageStopEvent, "end">>}
      [] OTHER -> {}

(***************************************************************************)
(* The invocation layer.                                                   *)
(***************************************************************************)
\* The last content block of acc after a content_block_delta.
accumulateDelta(cb, event) ==
    CASE event.DeltaType = "text_delta" -> [cb EXCEPT !.Text = cb.Text \o event.Text]
      [] event.DeltaType = "input_json_delta" ->
            IF event.PartialJSON = "" THEN cb
            ELSE IF cb.Input = "{}" THEN [cb EXCEPT !.Input = event.PartialJSON]
            ELSE [cb EXCEPT !.Input = cb.Input \o event.PartialJSON]
      [] OTHER -> cb

\* anthropic.Message.Accumulate of the SDK: [Err, Msg], the error it returns and
\* the message it leaves.
Accumulate(acc, event) ==
    CASE event.Type = "message_start" -> [Err |-> FALSE, Msg |-> event.Message]
      [] event.Type = "message_delta" ->
            [Err |-> FALSE,
             Msg |-> [acc EXCEPT !.StopReason = event.StopReason,
                                 !.Usage.OutputTokens = event.OutputTokens]]
      [] event.Type = "content_block_start" ->
            [Err |-> event.Malformed,
             Msg |-> [acc EXCEPT !.Content =
                        Append(acc.Content, IF event.Malformed THEN ZeroBlock ELSE event.Block)]]
      [] event.Type = "content_block_delta" ->
            IF Len(acc.Content) = 0 THEN [Err |-> TRUE, Msg |-> acc]
            ELSE [Err |-> FALSE,
                  Msg |-> [acc EXCEPT !.Content[Len(acc.Content)] =
                             accumulateDelta(acc.Content[Len(acc.Content)], event)]]
      [] OTHER -> [Err |-> FALSE, Msg |-> acc]

\* textDelta taking every content_block_delta for a text delta.
textDeltaAnyDelta(event) ==
    IF event.Type # "content_block_delta" THEN [Text |-> "", Ok |-> FALSE]
    ELSE [Text |-> event.Text, Ok |-> TRUE]

\* textDelta extracts the text of a text_delta event: [Text, Ok].
textDelta(event) ==
    IF event.Type # "content_block_delta" THEN [Text |-> "", Ok |-> FALSE]
    ELSE IF event.DeltaType = "text_delta" THEN [Text |-> event.Text, Ok |-> TRUE]
    ELSE [Text |-> "", Ok |-> FALSE]

\* An item handed to yield: a *model.LLMResponse (an option) and an error: ""
\* for nil, else its message; Wraps is the error it wraps.
Item(resp, err, wraps) == [Resp |-> resp, Err |-> err, Wraps |-> wraps]

\* fmt.Errorf(prefix + "%w", err)
Errorf(prefix, err) == Item(<<>>, prefix \o err, err)

\* The Partial response generateStream builds for a text delta.
partialResponse(delta) ==
    LLMResponse(Content("model", <<TextPart(delta)>>), "", <<>>, TRUE, FALSE)

\* finalResponse built from a fresh message instead of the accumulated one.
finalResponseFresh(m) == [messageToLLMResponse(ZeroMessage) EXCEPT !.TurnComplete = TRUE]

\* The final response generateStream builds from the accumulated message.
finalResponse(m) == [messageToLLMResponse(m) EXCEPT !.TurnComplete = TRUE]

MaxIterations == 2

SessionRequests ==
    { LLMRequest(<<UserContent>>,
                 <<Config(<<>>, 100, <<>>, <<>>, <<>>, << <<DeclParameters>> >>)>>),
      LLMRequest(<<UserContent, <<>> >>, <<>>) }

SessionMessages ==
    { Message(<<ContentBlock("text", "Paris", "", "", "")>>, "end_turn", 14, 3),
      Message(<<ContentBlock("text", "Checking.", "", "", ""),
                ContentBlock("tool_use", "", "toolu_01A", "get_spots_of_interest",
                             "{\"name\":\"all\"}")>>, "tool_use", 14, 3),
      Message(<<>>, "max_tokens", 14, 0) }

ProviderErrors == {"401 Unauthorized", "context canceled"}

Init ==
    /\ fn = "session" /\ arg = <<>> /\ res = <<>> /\ done = "no"
    /\ pc = "init"
    /\ stream \in BOOLEAN
    /\ req \in SessionRequests
    /\ params = <<>>
    /\ wire = "idle"
    /\ msg = ZeroMessage
    /\ yielded = <<>>
    /\ calls = 0
    /\ events = <<>>
    /\ closed = 0
    /\ iters = 0
    /\ stopped = FALSE

\* GenerateContent builds the params and returns the sequence; nothing is sent
\* before the sequence is iterated.
GenerateContent ==
    /\ pc = "init"
    /\ ~buildParamsPanics(req)
    /\ params' = <<buildParams(ModelName, req)>>
    /\ pc' = "seq"
    /\ UNCHANGED <<stream, req, wire, msg, yielded, calls, events, closed, iters, stopped>>
    /\ UNCHANGED convVars

GenerateContentPanic ==
    /\ pc = "init"
    /\ buildParamsPanics(req)
    /\ pc' = "panic"
    /\ UNCHANGED <<stream, req, params, wire, msg, yielded, calls, events, closed, iters,
                   stopped>>
    /\ UNCHANGED convVars

\* One iteration of the sequence a stream=false call returns, the call
\* succeeding with message m.
Generate(m) ==
    /\ pc \in {"seq", "returned"}
    /\ ~stream
    /\ iters < MaxIterations
    /\ iters' = iters + 1
    /\ calls' = calls + 1
    /\ msg' = m
    /\ yielded' = <<Item(<<messageToLLMResponse(m)>>, "", "")>>
    /\ pc' = "returned"
    /\ UNCHANGED <<stream, req, params, wire, events, closed, stopped>>
    /\ UNCHANGED convVars

\* GenerateFails without the return after the error is yielded: the response
\* of the failed call is yielded too.
GenerateFailsNoReturn(err) ==
    /\ pc \in {"seq", "returned"}
    /\ ~stream
    /\ iters < MaxIterations
    /\ iters' = iters + 1
    /\ calls' = calls + 1
    /\ msg' = ZeroMessage
    /\ yielded' = <<Errorf("claude: ", err), Item(<<messageToLLMResponse(ZeroMessage)>>, "", "")>>
    /\ pc' = "returned"
    /\ UNCHANGED <<stream, req, params, wire, events, closed, stopped>>
    /\ UNCHANGED convVars

\* The same iteration, the call failing with err.
GenerateFails(err) ==
    /\ pc \in {"seq", "returned"}
    /\ ~stream
    /\ iters < MaxIterations
    /\ iters' = iters + 1
    /\ calls' = calls + 1
    /\ msg' = ZeroMessage
    /\ yielded' = <<Errorf("claude: ", err)>>
    /\ pc' = "returned"
    /\ UNCHANGED <<stream, req, params, wire, events, closed, stopped>>
    /\ UNCHANGED convVars

\* An iteration of the sequence generateStream returns begins: NewStreaming,
\* defer stream.Close(), var msg.
StreamOpen ==
    /\ pc \in {"seq", "returned"}
    /\ stream
    /\ iters < MaxIterations
    /\ iters' = iters + 1
    /\ calls' = calls + 1
    /\ wire' = "init"
    /\ msg' = ZeroMessage
    /\ yielded' = <<>>
    /\ events' = <<>>
    /\ closed' = 0
    /\ stopped' = FALSE
    /\ pc' = "loop"
    /\ UNCHANGED <<stream, req, params>>
    /\ UNCHANGED convVars

\* StreamEvent with the answer of yield ignored: the loop goes on after the
\* consumer stopped.
StreamEventIgnoresStop(event, w, cont) ==
    LET acc == Accumulate(msg, event)
        delta == textDelta(event)
    IN  /\ pc = "loop"
        /\ Len(events) < MaxEvents
        /\ events' = Append(events, event)
        /\ wire' = w
        /\ msg' = acc.Msg
        /\ IF acc.Err THEN
              /\ yielded' = Append(yielded, Errorf("claude: accumulate: ", "invalid content block"))
              /\ closed' = closed + 1
              /\ pc' = "returned"
              /\ UNCHANGED stopped
           ELSE IF delta.Ok THEN
              /\ yielded' = Append(yielded, Item(<<partialResponse(delta.Text)>>, "", ""))
              /\ stopped' = (stopped \/ ~cont)
              /\ UNCHANGED <<closed, pc>>
           ELSE
              /\ cont
              /\ UNCHANGED <<yielded, stopped, closed, pc>>
        /\ UNCHANGED <<stream, req, params, calls, iters>>
        /\ UNCHANGED convVars

\* One turn of the loop: stream.Next() gave event; it is accumulated and, when
\* it is a text delta, yielded as a Partial response, to which the consumer
\* answers cont.  The deferred Close runs when the turn returns.
StreamEvent(event, w, cont) ==
    LET acc == Accumulate(msg, event)
        delta == textDelta(event)
    IN  /\ pc = "loop"
        /\ Len(events) < MaxEvents
        /\ events' = Append(events, event)
        /\ wire' = w
        /\ msg' = acc.Msg
        /\ IF acc.Err THEN
              /\ yielded' = Append(yielded, Errorf("claude: accumulate: ", "invalid content block"))
              /\ closed' = closed + 1
              /\ pc' = "returned"
              /\ UNCHANGED stopped
           ELSE IF delta.Ok THEN
              /\ yielded' = Append(yielded, Item(<<partialResponse(delta.Text)>>, "", ""))
              /\ stopped' = ~cont
              /\ closed' = IF cont THEN closed ELSE closed + 1
              /\ pc' = IF cont THEN "loop" ELSE "returned"
           ELSE
              /\ cont
              /\ UNCHANGED <<yielded, stopped, closed, pc>>
        /\ UNCHANGED <<stream, req, params, calls, iters>>
        /\ UNCHANGED convVars

\* StreamFails without the return after the error is yielded: the final
\* response follows the error.
StreamFailsNoReturn(err) ==
    /\ pc = "loop"
    /\ wire' = "error"
    /\ yielded' = yielded \o <<Errorf("claude: stream: ", err), Item(<<finalResponse(msg)>>, "", "")>>
    /\ closed' = closed + 1
    /\ pc' = "returned"
    /\ UNCHANGED <<stream, req, params, msg, calls, events, iters, stopped>>
    /\ UNCHANGED convVars

\* stream.Next() returned false with stream.Err() = err: the error is yielded.
StreamFails(err) ==
    /\ pc = "loop"
    /\ wire' = "error"
    /\ yielded' = Append(yielded, Errorf("claude: stream: ", err))
    /\ closed' = closed + 1
    /\ pc' = "returned"
    /\ UNCHANGED <<stream, req, params, msg, calls, events, iters, stopped>>
    /\ UNCHANGED convVars

\* stream.Next() returned false with no error: the accumulated response is
\* yielded with TurnComplete set.
StreamEnds ==
    /\ pc = "loop"
    /\ yielded' = Append(yielded, Item(<<finalResponse(msg)>>, "", ""))
    /\ closed' = closed + 1
    /\ pc' = "returned"
    /\ UNCHANGED <<stream, req, params, wire, msg, calls, events, iters, stopped>>
    /\ UNCHANGED convVars

Next ==
    \/ GenerateContent
    \/ GenerateContentPanic
    \/ \E m \in SessionMessages : Generate(m)
    \/ \E err \in ProviderErrors : GenerateFails(err)
    \/ StreamOpen
    \/ \E ev \in ProviderEvents(wire), cont \in BOOLEAN : StreamEvent(ev[1], ev[2], cont)
    \/ \E err \in ProviderErrors : StreamFails(err)
    \/ StreamEnds

Spec == Init /\ [][Next]_vars

(***************************************************************************)
(* Properties of the request mapper.                                       *)
(***************************************************************************)
\* C4: the MaxTokens of the built request is req.Config.MaxOutputTokens when
\* Config is non-nil and MaxOutputTokens > 0, and 8192 in every other case; it
\* is always strictly positive.
C4_MaxTokensDefault ==
    Returned("buildParams") =>
        /\ res[1].MaxTokens =
              IF arg.Config # <<>> /\ arg.Config[1].MaxOutputTokens > 0
              THEN arg.Config[1].MaxOutputTokens
              ELSE 8192
        /\ res[1].MaxTokens > 0

C4_Witness ==
    /\ Returned("buildParams")
    /\ arg.Config # <<>>
    /\ arg.Config[1].MaxOutputTokens = 0
    /\ res[1].MaxTokens = 8192

\* A part is convertible when partsToBlocks can make a block of it.
Convertible(p) == p.Text # "" \/ p.FunctionCall # <<>> \/ p.FunctionResponse # <<>>

\* The number of convertible parts among the first i parts.
RECURSIVE BlockIndex(_, _)
BlockIndex(parts, i) ==
    IF i = 0 THEN 0
    ELSE BlockIndex(parts, i - 1) + (IF Convertible(parts[i]) THEN 1 ELSE 0)

\* C6 as stated: every part that carries a FunctionCall produces a tool_use
\* block with the same ID, name and args, and every part that carries a
\* FunctionResponse produces a tool_result block with its ID, the JSON encoding
\* of its response and no error flag, whatever else the part has set.
C6_EveryCallAndResponseConverted ==
    Returned("partsToBlocks") =>
        \A i \in 1..Len(arg) :
            /\ arg[i].FunctionCall # <<>> =>
                  \E j \in 1..Len(res[1]) :
                      res[1][j] = NewToolUseBlock(arg[i].FunctionCall[1].ID,
                                                  arg[i].FunctionCall[1].Data,
                                                  arg[i].FunctionCall[1].Name)
            /\ arg[i].FunctionResponse # <<>> =>
                  \E j \in 1..Len(res[1]) :
                      res[1][j] = NewToolResultBlock(
                                      arg[i].FunctionResponse[1].ID,
                                      JSONMarshal(arg[i].FunctionResponse[1].Data), FALSE)

\* C6, amended: each convertible part produces exactly one block, in part order,
\* chosen by the first of Text, FunctionCall, FunctionResponse that is set: a
\* text block for a non-empty Text; a tool_use block with the same ID, name and
\* args for a FunctionCall on a part with empty Text; a tool_result block with
\* the FunctionResponse ID, the JSON encoding of the response and error flag
\* false for a FunctionResponse on a part with empty Text and no FunctionCall.
C6_FirstSetFieldConverted ==
    Returned("partsToBlocks") =>
        /\ Len(res[1]) = BlockIndex(arg, Len(arg))
        /\ \A i \in 1..Len(arg) :
              LET p == arg[i]
                  b == res[1][BlockIndex(arg, i)]
              IN  /\ p.Text # "" => b = NewTextBlock(p.Text)
                  /\ p.Text = "" /\ p.FunctionCall # <<>> =>
                        /\ b.Type = "tool_use"
                        /\ b.ID = p.FunctionCall[1].ID
                        /\ b.Name = p.FunctionCall[1].Name
                        /\ b.Input = p.FunctionCall[1].Data
                  /\ p.Text = "" /\ p.FunctionCall = <<>> /\ p.FunctionResponse # <<>> =>
                        /\ b.Type = "tool_result"
                        /\ b.ToolUseID = p.FunctionResponse[1].ID
                        /\ b.Content = JSONMarshal(p.FunctionResponse[1].Data)
                        /\ b.IsError = FALSE

C6_Witness ==
    /\ Returned("partsToBlocks")
    /\ Len(arg) = 2
    /\ arg[1].Text = "" /\ arg[1].FunctionCall # <<>> /\ arg[1].FunctionResponse # <<>>
    /\ arg[2].Text = "" /\ arg[2].FunctionCall = <<>>
    /\ arg[2].FunctionResponse # <<>> /\ arg[2].FunctionResponse[1].Data # <<>>
    /\ Len(res[1]) = 2
    /\ res[1][1].Type = "tool_use"
    /\ res[1][2].Type = "tool_result"
    /\ res[1][2].Content = "{\"result\":\"Ocean Beach\"}"

\* A content that contentsToMessages turns into a message.
ConvertibleContent(c) ==
    c # <<>> /\ \E i \in 1..Len(c[1].Parts) : Convertible(c[1].Parts[i])

\* C7: the messages are, in order, one per non-nil content with a convertible
\* part; role "model" or "assistant" gives an assistant message and any other
\* role a user message, each holding that content's blocks; nothing is merged.
C7_OneMessagePerContent ==
    Returned("contentsToMessages") =>
        LET kept == SelectSeq(arg, ConvertibleContent)
        IN  /\ Len(res[1]) = Len(kept)
            /\ \A k \in 1..Len(kept) :
                  /\ res[1][k].Role =
                        IF kept[k][1].Role \in {"model", "assistant"}
                        THEN "assistant" ELSE "user"
                  /\ res[1][k].Content = partsToBlocks(kept[k][1].Parts)

C7_Witness ==
    /\ Returned("contentsToMessages")
    /\ Len(arg) = 3
    /\ arg[1] # <<>> /\ arg[1][1].Role = "model" /\ ConvertibleContent(arg[1])
    /\ arg[2] # <<>> /\ arg[2][1].Role = "assistant" /\ ~ConvertibleContent(arg[2])
    /\ arg[3] # <<>> /\ arg[3][1].Role = "assistant" /\ ConvertibleContent(arg[3])
    /\ Len(res[1]) = 2
    /\ res[1][1].Role = "assistant" /\ res[1][2].Role = "assistant"

HasText(p) == p.Text # ""

\* C9: systemFromContent returns at most one block: one whose text is the
\* non-empty texts joined by "\n" in part order when there is one, none
\* otherwise; buildParams leaves System unset when there is none.
C9_SystemJoined ==
    /\ Returned("systemFromContent") =>
          LET texts == SelectSeq(arg.Parts, HasText)
          IN  IF Len(texts) > 0
              THEN /\ Len(res[1]) = 1
                   /\ res[1][1].Type = "text"
                   /\ res[1][1].Text =
                         Join([i \in 1..Len(texts) |-> texts[i].Text], "\n")
              ELSE res[1] = <<>>
    /\ Returned("buildParams") =>
          LET has == /\ arg.Config # <<>>
                     /\ arg.Config[1].SystemInstruction # <<>>
                     /\ \E i \in 1..Len(arg.Config[1].SystemInstruction[1].Parts) :
                           HasText(arg.Config[1].SystemInstruction[1].Parts[i])
          IN  IF has THEN Len(res[1].System) = 1 ELSE res[1].System = <<>>

C9_Witness ==
    /\ Returned("systemFromContent")
    /\ Len(arg.Parts) = 3
    /\ arg.Parts[1].Text = "You are a surf analyst."
    /\ arg.Parts[2].Text = ""
    /\ arg.Parts[3].Text = "Rate conditions."
    /\ Len(res[1]) = 1
    /\ res[1][1].Text = "You are a surf analyst.\nRate conditions."

SchemaKeys == {"type", "description", "properties", "required", "enum", "items"}

\* m is the normal form of the schema s (nil or a schema), at every level.
RECURSIVE SchemaNormalized(_, _)
SchemaNormalized(s, m) ==
    IF s = <<>> THEN DOMAIN m = {"type"} /\ m["type"] = <<"o","b","j","e","c","t">>
    ELSE LET x == s[1]
         IN  /\ DOMAIN m \subseteq SchemaKeys
             /\ "type" \in DOMAIN m
             /\ m["type"] = ToLower(x.Type)
             /\ "description" \in DOMAIN m <=> x.Description # ""
             /\ "description" \in DOMAIN m => m["description"] = x.Description
             /\ "properties" \in DOMAIN m <=> x.Properties # <<>>
             /\ "properties" \in DOMAIN m =>
                   /\ DOMAIN m["properties"] = PropNames(x.Properties)
                   /\ \A n \in PropNames(x.Properties) :
                         SchemaNormalized(PropValue(x.Properties, n), m["properties"][n])
             /\ "required" \in DOMAIN m <=> x.Required # <<>>
             /\ "required" \in DOMAIN m => m["required"] = x.Required
             /\ "enum" \in DOMAIN m <=> x.Enum # <<>>
             /\ "enum" \in DOMAIN m => m["enum"] = x.Enum
             /\ "items" \in DOMAIN m <=> x.Items # <<>>
             /\ "items" \in DOMAIN m => SchemaNormalized(x.Items, m["items"])

\* C10: schemaToMap normalizes a schema recursively: the type is lower-cased at
\* every level, a nil schema gives exactly {"type": "object"}, required is the
\* input list, and description, properties, required, enum and items are present
\* exactly when the input field is non-empty, with the property names preserved.
C10_SchemaNormalized == Returned("schemaToMap") => SchemaNormalized(arg, res[1])

C10_Witness ==
    /\ Returned("schemaToMap")
    /\ arg # <<>>
    /\ arg[1].Type = <<"O","B","J","E","C","T">>
    /\ PropNames(arg[1].Properties) = {"name", "tags"}
    /\ PropValue(arg[1].Properties, "tags") = <<>>
    /\ PropValue(arg[1].Properties, "name") # <<>>
    /\ PropValue(arg[1].Properties, "name")[1].Type = <<"A","R","R","A","Y">>
    /\ PropValue(arg[1].Properties, "name")[1].Items # <<>>
    /\ PropValue(arg[1].Properties, "name")[1].Items[1].Type = <<"S","t","r","i","n","g">>
    /\ res[1]["type"] = <<"o","b","j","e","c","t">>
    /\ res[1]["properties"]["tags"]["type"] = <<"o","b","j","e","c","t">>
    /\ res[1]["properties"]["name"]["type"] = <<"a","r","r","a","y">>
    /\ res[1]["properties"]["name"]["items"]["type"] = <<"s","t","r","i","n","g">>
    /\ res[1]["required"] = <<"name">>

(***************************************************************************)
(* Properties of the response mapper.                                      *)
(***************************************************************************)
\* The class of a provider stop reason: natural stop, length limit, tool
\* invocation, other.
StopClass(reason) ==
    IF reason \in {"end_turn", "max_tokens", "tool_use"} THEN reason ELSE "other"

\* C5 as stated: stop reasons of different classes (end_turn, max_tokens,
\* tool_use, any other) have different finish reasons.
C5_FourDistinctFinishReasons ==
    Returned("stopToFinish") =>
        \A other \in StopReasons :
            StopClass(other) # StopClass(arg) => stopToFinish(other) # res[1]

\* C5, amended: stopToFinish maps end_turn and tool_use both to STOP, max_tokens
\* to MAX_TOKENS and every other stop reason to OTHER: three pairwise distinct
\* finish reasons, so the finish reason tells a length limit and an other stop
\* apart from a natural stop, but not a tool invocation.
C5_ThreeFinishReasons ==
    Returned("stopToFinish") =>
        /\ arg \in {"end_turn", "tool_use"} => res[1] = "STOP"
        /\ arg = "max_tokens" => res[1] = "MAX_TOKENS"
        /\ arg \notin {"end_turn", "tool_use", "max_tokens"} => res[1] = "OTHER"

C5_Witness == Returned("stopToFinish") /\ arg = "tool_use" /\ res[1] = "STOP"

IsPartBlock(b) == b.Type \in {"text", "tool_use"}

\* C8: the response Content has role "model" and its parts are, in block order,
\* a text part per text block and a FunctionCall part per tool_use block with
\* the block's ID, name and decoded input; other blocks give no part.
C8_BlocksToPartsInOrder ==
    Returned("messageToLLMResponse") =>
        LET kept == SelectSeq(arg.Content, IsPartBlock)
            parts == res[1].Content.Parts
        IN  /\ res[1].Content.Role = "model"
            /\ Len(parts) = Len(kept)
            /\ \A k \in 1..Len(kept) :
                  IF kept[k].Type = "text"
                  THEN parts[k] = TextPart(kept[k].Text)
                  ELSE /\ parts[k].Text = ""
                       /\ parts[k].FunctionResponse = <<>>
                       /\ Len(parts[k].FunctionCall) = 1
                       /\ parts[k].FunctionCall[1].ID = kept[k].ID
                       /\ parts[k].FunctionCall[1].Name = kept[k].Name
                       /\ parts[k].FunctionCall[1].Data = JSONUnmarshal(kept[k].Input)

C8_Witness ==
    /\ Returned("messageToLLMResponse")
    /\ Len(arg.Content) = 3
    /\ arg.Content[1].Type = "thinking"
    /\ arg.Content[2].Type = "text" /\ arg.Content[2].Text = "Paris"
    /\ arg.Content[3].Type = "tool_use" /\ arg.Content[3].Input = "{\"name\":\"all\"}"
    /\ Len(res[1].Content.Parts) = 2
    /\ res[1].Content.Parts[1].Text = "Paris"
    /\ res[1].Content.Parts[2].FunctionCall[1].ID = "toolu_01A"
    /\ res[1].Content.Parts[2].FunctionCall[1].Data = ArgsMap

(***************************************************************************)
(* Properties of the invocation layer.                                     *)
(***************************************************************************)
IsTextDeltaEvent(e) == e.Type = "content_block_delta" /\ e.DeltaType = "text_delta"

\* The text delta events read so far, in order.
TextDeltaEvents == SelectSeq(events, IsTextDeltaEvent)

NoError(items) == \A i \in 1..Len(items) : items[i].Err = ""

\* A streaming iteration that returned with no error yielded and no early stop.
StreamCompleted == stream /\ pc = "returned" /\ ~stopped /\ NoError(yielded)

\* The k-th item is the Partial response of the k-th text delta read.
IsPartialOf(item, e) ==
    /\ item.Err = ""
    /\ item.Resp = <<LLMResponse(Content("model", <<TextPart(e.Text)>>), "", <<>>, TRUE, FALSE)>>

\* C1: a streaming session that ends without error and without an early stop
\* yields one Partial response per text_delta event, in event order, each with
\* that event's text as the single part of a "model" content, then exactly one
\* final response with Partial=false and TurnComplete=true; other events yield
\* nothing, no Partial response has TurnComplete and none follows the final one.
C1_PartialsThenFinal ==
    /\ stream /\ pc = "loop" =>
          /\ Len(yielded) = Len(TextDeltaEvents)
          /\ \A k \in 1..Len(yielded) : IsPartialOf(yielded[k], TextDeltaEvents[k])
    /\ StreamCompleted =>
          /\ Len(yielded) = Len(TextDeltaEvents) + 1
          /\ \A k \in 1..Len(TextDeltaEvents) : IsPartialOf(yielded[k], TextDeltaEvents[k])
          /\ LET final == yielded[Len(yielded)]
             IN  /\ final.Resp # <<>>
                 /\ ~final.Resp[1].Partial
                 /\ final.Resp[1].TurnComplete

C1_Witness ==
    /\ StreamCompleted
    /\ Len(TextDeltaEvents) = 2
    /\ \E i \in 1..Len(events) : events[i].DeltaType = "input_json_delta"
    /\ Len(events) = MaxEvents
    /\ events[Len(events)].Type = "message_stop"
    /\ Len(yielded) = 3
    /\ yielded[1].Resp[1].Content.Parts[1].Text = "Hello"
    /\ yielded[2].Resp[1].Content.Parts[1].Text = " world"
    /\ yielded[3].Resp[1].TurnComplete

\* The concatenation of the Text of the parts of a response.
ResponseText(resp) ==
    Concat([i \in 1..Len(resp.Content.Parts) |-> resp.Content.Parts[i].Text])

\* C2: in a streaming session that completes without error the text of the final
\* response equals the concatenation, in yield order, of the texts of the
\* Partial responses yielded before it.
C2_FinalTextIsPartials ==
    StreamCompleted =>
        ResponseText(yielded[Len(yielded)].Resp[1]) =
            Concat([k \in 1..(Len(yielded) - 1) |-> ResponseText(yielded[k].Resp[1])])

C2_Witness ==
    /\ StreamCompleted
    /\ Len(yielded) = 3
    /\ yielded[1].Resp[1].Content.Parts[1].Text = "Hello"
    /\ yielded[2].Resp[1].Content.Parts[1].Text = " world"
    /\ Len(yielded[3].Resp[1].Content.Parts) = 2
    /\ yielded[3].Resp[1].Content.Parts[1].Text = "Hello world"
    /\ yielded[3].Resp[1].Content.Parts[2].FunctionCall # <<>>
    /\ yielded[3].Resp[1].Content.Parts[2].FunctionCall[1].Data = ArgsMap

\* C3: each iteration of the sequence of a stream=false call makes one provider
\* call and yields exactly one item: (response, nil) with a non-nil response when
\* the call succeeds, (nil, error) with the provider error wrapped when it fails;
\* never both, and never a second item.
C3_OneCallOneItem ==
    ~stream =>
        /\ calls = iters
        /\ Len(yielded) <= 1
        /\ pc = "returned" =>
              /\ Len(yielded) = 1
              /\ \/ /\ yielded[1].Err = ""
                    /\ yielded[1].Resp = <<messageToLLMResponse(msg)>>
                 \/ /\ yielded[1].Resp = <<>>
                    /\ yielded[1].Wraps \in ProviderErrors
                    /\ yielded[1].Err = "claude: " \o yielded[1].Wraps

C3_Witness ==
    /\ ~stream
    /\ pc = "returned"
    /\ iters = 2
    /\ calls = 2
    /\ yielded = <<Item(<<>>, "claude: 401 Unauthorized", "401 Unauthorized")>>

(***************************************************************************)
(* Properties of the tools of a request.                                   *)
(***************************************************************************)
RECURSIVE Declared(_)
\* The function declarations of a list of tool groups, in declaration order.
Declared(tools) ==
    IF tools = <<>> THEN <<>>
    ELSE Declared(SubSeq(tools, 1, Len(tools) - 1)) \o tools[Len(tools)]

\* The function declarations of the config of request r.
DeclaredIn(r) == IF r.Config = <<>> THEN <<>> ELSE Declared(r.Config[1].Tools)

AutoNoParallel == << [Type |-> "auto", DisableParallelToolUse |-> TRUE] >>

\* C14: in the request built by buildParams, Tools and ToolChoice are set
\* together or not at all: with at least one function declared, Tools holds one
\* tool per declaration, in declaration order across the tool groups, each named
\* and described as its declaration with input-schema type "object", and
\* ToolChoice is "auto" with parallel tool use disabled; with a nil Config or no
\* function declared, both are unset.
C14_ToolsAndToolChoiceTogether ==
    Returned("buildParams") =>
        LET p == res[1]
            fds == DeclaredIn(arg)
        IN  /\ (p.Tools = <<>>) <=> (p.ToolChoice = <<>>)
            /\ Len(fds) = 0 => p.Tools = <<>> /\ p.ToolChoice = <<>>
            /\ Len(fds) > 0 =>
                  /\ Len(p.Tools) = Len(fds)
                  /\ \A i \in 1..Len(fds) :
                        /\ p.Tools[i].Name = fds[i].Name
                        /\ p.Tools[i].Description = fds[i].Description
                        /\ p.Tools[i].InputSchema.Type = "object"
                  /\ p.ToolChoice = AutoNoParallel

\* Four functions declared in three tool groups, one of them empty.
C14_Witness ==
    /\ Returned("buildParams")
    /\ arg.Config # <<>>
    /\ Len(arg.Config[1].Tools) = 3
    /\ Len(res[1].Tools) = 4
    /\ res[1].Tools[1].Name = "get_spots_of_interest"
    /\ res[1].Tools[2].Name = "get_tides"
    /\ res[1].Tools[3].Name = "ping"
    /\ res[1].Tools[4].Name = "echo"
    /\ res[1].ToolChoice = AutoNoParallel

(***************************************************************************)
(* Properties of a streaming session's error and exit paths.               *)
(***************************************************************************)
RECURSIVE Accumulated(_)
\* The outcome of accumulating evs in order from an empty message, stopping at
\* the first failure.
Accumulated(evs) ==
    IF evs = <<>> THEN [Err |-> FALSE, Msg |-> ZeroMessage]
    ELSE LET prev == Accumulated(SubSeq(evs, 1, Len(evs) - 1))
         IN  IF prev.Err THEN prev ELSE Accumulate(prev.Msg, evs[Len(evs)])

\* The positions of the (nil, error) items yielded so far.
ErrorItems == {i \in 1..Len(yielded) : yielded[i].Err # ""}

\* The stream ended with an error.
StreamErred == wire = "error"

\* C12: in a streaming session, when accumulating an event fails or the stream
\* ends with an error, exactly one (nil, error) item is yielded; an error item
\* is the last item of its session, the session has returned, and every item
\* before it is a Partial response without TurnComplete.
C12_ErrorIsTerminal ==
    stream =>
        /\ (Accumulated(events).Err \/ StreamErred) =>
              /\ Cardinality(ErrorItems) = 1
              /\ Accumulated(events).Err =>
                    yielded[Len(yielded)].Err = "claude: accumulate: invalid content block"
              /\ StreamErred => yielded[Len(yielded)].Wraps \in ProviderErrors
        /\ \A i \in ErrorItems :
              /\ i = Len(yielded)
              /\ yielded[i].Resp = <<>>
              /\ pc = "returned"
              /\ \A k \in 1..(i - 1) :
                    /\ yielded[k].Resp # <<>>
                    /\ yielded[k].Resp[1].Partial
                    /\ ~yielded[k].Resp[1].TurnComplete
        /\ ErrorItems # {} => Accumulated(events).Err \/ StreamErred

\* Two Partial responses were yielded before the stream ended with an error.
C12_Witness ==
    /\ stream
    /\ StreamErred
    /\ pc = "returned"
    /\ Len(yielded) = 3
    /\ yielded[1].Resp # <<>> /\ yielded[1].Resp[1].Partial
    /\ yielded[2].Resp # <<>> /\ yielded[2].Resp[1].Partial
    /\ yielded[3] = Errorf("claude: stream: ", "context canceled")

\* The consumer stopped: the session returned on the Partial response of the
\* last event read, which is the last item yielded.
StoppedOnPartial ==
    /\ pc = "returned"
    /\ Len(events) > 0
    /\ IsTextDeltaEvent(events[Len(events)])
    /\ Len(yielded) = Len(TextDeltaEvents)
    /\ IsPartialOf(yielded[Len(yielded)], events[Len(events)])
    /\ \A k \in 1..Len(yielded) : yielded[k].Resp # <<>> /\ ~yielded[k].Resp[1].TurnComplete

\* The provider stream is open while the loop runs and has been closed exactly
\* once when the session has returned.
ClosedOnceOnExit ==
    /\ pc = "loop" => closed = 0
    /\ pc = "returned" => closed = 1

\* C13: in a streaming session, once the consumer stops on a Partial response
\* the session has returned with that response as its last item, and nothing is
\* yielded, read from the stream or closed again afterwards; on every exit path
\* (consumer stop, accumulate error, stream error, normal completion) the
\* provider stream has been closed exactly once, and it is not closed before.
C13_StopEndsSessionAndStreamClosedOnce ==
    /\ [](stream => (stopped => StoppedOnPartial) /\ ClosedOnceOnExit)
    /\ [][stream /\ stopped /\ stopped' =>
             yielded' = yielded /\ events' = events /\ closed' = closed]_vars

\* The consumer stopped on the second Partial response while the stream had
\* more events to give; the stream is closed.
C13_Witness ==
    /\ stream
    /\ stopped
    /\ pc = "returned"
    /\ wire = "text"
    /\ Len(yielded) = 2
    /\ Len(events) = 4
    /\ closed = 1

(***************************************************************************)
(* Properties of the token-usage normalization.                            *)
(***************************************************************************)
\* x is representable as a signed integer of the given width.
FitsIn(x, bits) == 0 - 2 ^ (bits - 1) <= x /\ x < 2 ^ (bits - 1)

\* t is the truncation of x to a signed integer of the given width.
IsTruncation(t, x, bits) == FitsIn(t, bits) /\ (t - x) % (2 ^ bits) = 0

\* The three counts are the int32 truncations of input, output and the int64
\* sum input+output, and the total is the wrap-around int32 sum of the others.
WrapAroundTotal(u, md) ==
    /\ IsTruncation(md.PromptTokenCount, u.InputTokens, Int32Bits)
    /\ IsTruncation(md.CandidatesTokenCount, u.OutputTokens, Int32Bits)
    /\ \E sum \in (0 - 2 ^ (Int64Bits - 1))..(2 ^ (Int64Bits - 1) - 1) :
          /\ IsTruncation(sum, u.InputTokens + u.OutputTokens, Int64Bits)
          /\ IsTruncation(md.TotalTokenCount, sum, Int32Bits)
    /\ IsTruncation(md.TotalTokenCount,
                    md.PromptTokenCount + md.CandidatesTokenCount, Int32Bits)

\* C11 as stated: the total is the wrap-around sum of the two counts for all
\* int64 inputs, and their plain sum whenever input+output fits in an int32.
C11_PlainTotalWhenSumFits ==
    Returned("usageToMetadata") =>
        /\ WrapAroundTotal(arg, res[1])
        /\ FitsIn(arg.InputTokens + arg.OutputTokens, Int32Bits) =>
              res[1].TotalTokenCount =
                  res[1].PromptTokenCount + res[1].CandidatesTokenCount

\* C11, amended: the three counts are the int32 truncations of the int64 input,
\* output and input+output; the total is the wrap-around int32 sum of the other
\* two for all int64 inputs, and their plain sum whenever input and output are
\* both non-negative and input+output fits in an int32.
C11_PlainTotalWhenNonNegative ==
    Returned("usageToMetadata") =>
        /\ WrapAroundTotal(arg, res[1])
        /\ (/\ arg.InputTokens >= 0
            /\ arg.OutputTokens >= 0
            /\ FitsIn(arg.InputTokens + arg.OutputTokens, Int32Bits)) =>
              res[1].TotalTokenCount =
                  res[1].PromptTokenCount + res[1].CandidatesTokenCount

\* Both counts overflow an int32 and so does their sum: the total wraps around.
C11_Witness ==
    /\ Returned("usageToMetadata")
    /\ arg.InputTokens = 2 ^ (Int32Bits - 1) + 3
    /\ arg.OutputTokens = 2 ^ (Int32Bits - 1) + 4
    /\ res[1].PromptTokenCount = 3 - 2 ^ (Int32Bits - 1)
    /\ res[1].CandidatesTokenCount = 4 - 2 ^ (Int32Bits - 1)
    /\ res[1].TotalTokenCount = 7
    /\ res[1].TotalTokenCount # res[1].PromptTokenCount + res[1].CandidatesTokenCount

====
